---- MODULE Spec2Model ----
(***************************************************************************)
(* Model of the sticker pack synchronizer (sticker/pack.py), the cross-pack *)
(* index writer (sticker/lib/util.py) and the image layer                   *)
(* (sticker/lib/image.py).                                                  *)
(*                                                                          *)
(* Strings that the code takes apart (file names, directory names) are      *)
(* sequences of one-character strings; None and "" are both <<>>.           *)
(***************************************************************************)
EXTENDS Integers, Sequences, FiniteSets, TLC

VARIABLES
    dir,            \* the pack directory: file name -> what is stored there
    manifest,       \* pack.json on disk
    index,          \* index.json in the picker directory
    copies,         \* picker directory: pack file name -> copied pack
    homeserver_url, \* matrix.homeserver_url, set by load_config
    pc,             \* position of main(): idle, loop, index, done, aborted
    cause,          \* the exception that ended main(), "" when none
    args,           \* the argparse namespace of the current run
    pack,           \* main()'s local pack
    old_stickers,   \* main()'s local lookup id -> previous entry
    todo,           \* the rest of sorted(os.listdir(path))
    log,            \* history: one record per upload_sticker call of this run
    startManifest,  \* history: pack.json as it was when this run started
    runDir,         \* history: the directory as it was when this run started
    prevRun,        \* history: how the previous run ended and what it saw
    established,    \* history: title and id of the first manifest written
    runs,           \* history: number of runs started
    edits,          \* history: number of changes made to the directory
    calls,          \* history: pack file names passed to add_to_index
    lastCall,       \* history: the last add_to_index call and what it did
    tgs             \* the last convert_tgs_to_webp call: animation and result

vars == <<dir, manifest, index, copies, homeserver_url, pc, cause, args, pack,
          old_stickers, todo, log, startManifest, runDir, prevRun, established,
          runs, edits, calls, lastCall, tgs>>

runVars == <<dir, manifest, index, copies, homeserver_url, pc, cause, args, pack,
             old_stickers, todo, log, startManifest, runDir, prevRun,
             established, runs, edits>>

indexVars == <<calls, lastCall>>

(***************************************************************************)
(* Bounds                                                                   *)
(***************************************************************************)
MaxRuns == 2
MaxEdits == 1
MaxCalls == 4
MaxFrames == 3
MaxRate == 61

None == <<>>

(***************************************************************************)
(* Strings                                                                  *)
(***************************************************************************)
Digits == {"0", "1", "2", "3", "4", "5", "6", "7", "8", "9"}

\* ord() of the characters the model's names are made of
CharCode(c) ==
    CASE c = " " -> 32 [] c = "!" -> 33 [] c = "-" -> 45 [] c = "." -> 46
      [] c = "1" -> 49 [] c = "T" -> 84 [] c = "I" -> 73 [] c = "_" -> 95
      [] c = "a" -> 97 [] c = "b" -> 98 [] c = "d" -> 100 [] c = "g" -> 103
      [] c = "h" -> 104 [] c = "j" -> 106 [] c = "n" -> 110 [] c = "o" -> 111
      [] c = "p" -> 112 [] c = "s" -> 115

\* str < str, as sorted() compares file names
RECURSIVE StrLess(_, _)
StrLess(s, t) ==
    IF t = <<>> THEN FALSE
    ELSE IF s = <<>> THEN TRUE
    ELSE IF Head(s) = Head(t) THEN StrLess(Tail(s), Tail(t))
    ELSE CharCode(Head(s)) < CharCode(Head(t))

\* sorted(names)
RECURSIVE sorted(_)
sorted(S) ==
    IF S = {} THEN <<>>
    ELSE LET m == CHOOSE x \in S : \A y \in S \ {x} : StrLess(x, y)
         IN  <<m>> \o sorted(S \ {m})

Positions(s, c) == {i \in 1..Len(s) : s[i] = c}
Max(S) == CHOOSE x \in S : \A y \in S : y <= x
Min(S) == CHOOSE x \in S : \A y \in S : x <= y

\* os.path.splitext(file)[0]: cut at the last dot unless only dots precede it
splitext_root(p) ==
    IF Positions(p, ".") = {} THEN p
    ELSE LET d == Max(Positions(p, "."))
         IN  IF \E j \in 1..(d - 1) : p[j] # "." THEN SubSeq(p, 1, d - 1) ELSE p

\* name.split("-", 1)
split_dash(s) ==
    IF Positions(s, "-") = {} THEN <<s>>
    ELSE LET i == Min(Positions(s, "-"))
         IN  <<SubSeq(s, 1, i - 1), SubSeq(s, i + 1, Len(s))>>

isdecimal(s) == s # <<>> /\ \A i \in 1..Len(s) : s[i] \in Digits

startswith_dot(s) == s # <<>> /\ s[1] = "."

\* the display name of a file
sticker_name(file) ==
    LET name == splitext_root(file)
        name_split == split_dash(name)
    IN  IF Len(name_split) = 2 /\ isdecimal(name_split[1])
        THEN name_split[2]
        ELSE name

allowed_chars ==
    {"a", "b", "c", "d", "e", "f", "g", "h", "i", "j", "k", "l", "m", "n", "o",
     "p", "q", "r", "s", "t", "u", "v", "w", "x", "y", "z",
     "A", "B", "C", "D", "E", "F", "G", "H", "I", "J", "K", "L", "M", "N", "O",
     "P", "Q", "R", "S", "T", "U", "V", "W", "X", "Y", "Z"}
    \cup Digits \cup {"_", "-", "/", ".", "#"}

IsAllowedChar(c) == c \in allowed_chars

convert_name(name) ==
    LET translated == [i \in 1..Len(name) |->
                          IF name[i] = " " THEN "_" ELSE name[i]]
    IN  SelectSeq(translated, IsAllowedChar)

\* Python's `a or b` on strings
Or(a, b) == IF a = None THEN b ELSE a

(***************************************************************************)
(* Format registry and canonical image (lib/image.py).  A MIME type is the  *)
(* pair <<type, subtype>>.                                                  *)
(***************************************************************************)
from_mime_type(mime_type) ==
    CASE mime_type = <<"image", "png">> -> "PNG"
      [] mime_type = <<"application", "x-tgsticker">> -> "TGS"
      [] mime_type = <<"image", "webp">> -> "WEBP"
      [] mime_type = <<"image", "jpeg">> -> "JPEG"
      [] mime_type = <<"image", "gif">> -> "GIF"
      [] mime_type = <<"image", "apng">> -> "APNG"
      [] mime_type = <<"image", "avif">> -> "AVIF"
      [] OTHER -> "UNKNOWN"

to_mime_type(format) ==
    CASE format = "PNG" -> <<"image", "png">>
      [] format = "TGS" -> <<"application", "x-tgsticker">>
      [] format = "WEBP" -> <<"image", "webp">>
      [] format = "JPEG" -> <<"image", "jpeg">>
      [] format = "GIF" -> <<"image", "gif">>
      [] format = "APNG" -> <<"image", "apng">>
      [] format = "AVIF" -> <<"image", "avif">>
      [] format = "UNKNOWN" -> <<"image", "unknown">>

to_extension(format) ==
    CASE format = "PNG" -> "png"
      [] format = "TGS" -> "tgs"
      [] format = "WEBP" -> "webp"
      [] format = "JPEG" -> "jpg"
      [] format = "GIF" -> "gif"
      [] format = "APNG" -> "apng"
      [] format = "AVIF" -> "avif"
      [] format = "UNKNOWN" -> "unknown"

\* int(1000 / framerate), framerate a positive whole number
frame_duration(framerate) == 1000 \div framerate

\* convert_tgs_to_webp on an animation of frame_count frames: the frames
\* rendered in order and the keyword arguments of the save call, or the
\* IndexError of frames[0] on an empty animation
convert_tgs_to_webp(animation) ==
    LET frames == [i \in 1..animation.frame_count |-> i - 1]
    IN  IF Len(frames) > 1
        THEN [raised |-> "", format |-> "WEBP", frames |-> frames,
              save_all |-> TRUE,
              options |-> {<<"duration", frame_duration(animation.framerate)>>,
                           <<"loop", 0>>}]
        ELSE IF Len(frames) = 1
        THEN [raised |-> "", format |-> "WEBP", frames |-> <<frames[1]>>,
              save_all |-> FALSE, options |-> {<<"quality", 95>>}]
        ELSE [raised |-> "IndexError", format |-> "WEBP", frames |-> <<>>,
              save_all |-> FALSE, options |-> {}]

(***************************************************************************)
(* Files.  The raw bytes of a regular file are one of Bytes; what the       *)
(* collaborators (MIME detection, PIL, rlottie) make of them is fixed per   *)
(* content.                                                                 *)
(***************************************************************************)
Absent == "absent"
Subdir == "subdir"          \* a directory entry that is no regular file
Unreadable == "unreadable"  \* a regular image file whose open() fails
PngBytes == "png-bytes"
GifBytes == "gif-bytes"
BmpBytes == "bmp-bytes"     \* an image/* type outside the registry
TgsBytes == "tgs-bytes"
Bytes == {PngBytes, GifBytes, BmpBytes, TgsBytes}

Names == {<<"1", "-", "a", ".", "p">>, <<"b", "-", "a", ".", "g">>,
          <<".", "h", ".", "p">>}

\* what the model stores under a name: anything under the first name, image
\* files under the second, a PNG under the hidden one
Storable(n) ==
    IF n[1] = "." THEN {Absent, PngBytes}
    ELSE IF n[1] = "b" THEN {Absent, PngBytes, GifBytes, BmpBytes}
    ELSE Bytes \cup {Absent, Subdir, Unreadable}

\* magic.from_file(path, mime=True) / mimetypes.guess_type(file)
detect_mime(content) ==
    CASE content = PngBytes -> <<"image", "png">>
      [] content = GifBytes -> <<"image", "gif">>
      [] content = BmpBytes -> <<"image", "bmp">>
      [] content = TgsBytes -> <<"application", "x-tgsticker">>
      [] content = Unreadable -> <<"image", "png">>
      [] OTHER -> None

\* Image.open(BytesIO(data)): the decoded size
image_size(data) ==
    CASE data = PngBytes -> <<512, 256>>
      [] data = GifBytes -> <<64, 64>>
      [] OTHER -> <<128, 128>>

\* LottieAnimation.from_tgs: the animation stored in a TGS file
lottie_animation(data) == [frame_count |-> 2, framerate |-> 60]

\* Image.open(...).convert("RGBA") and image.save(format=...): PIL has no
\* writer called "unknown"
PilEncodes(data, format) == to_extension(format) # "unknown"

\* GenericImage.from_bytes
RECURSIVE from_bytes(_, _)
from_bytes(data, format) ==
    IF format = "TGS"
    THEN LET converted_data == convert_tgs_to_webp(lottie_animation(data))
         IN  IF converted_data.raised # ""
             THEN [raised |-> "DecodeError", data |-> data, width |-> 0,
                   height |-> 0, format |-> format]
             ELSE from_bytes(converted_data, "WEBP")
    ELSE IF PilEncodes(data, format)
    THEN [raised |-> "", data |-> <<format, data>>,
          width |-> image_size(data)[1], height |-> image_size(data)[2],
          format |-> format]
    ELSE [raised |-> "DecodeError", data |-> data, width |-> 0, height |-> 0,
          format |-> format]

\* len(generic_image.data)
data_len(data) == IF data[1] = "GIF" THEN 2048 ELSE 4096

\* sha256(image_data).hexdigest() behind the "sha256:" prefix
sticker_id_of(image_data) == <<"sha256", image_data>>

(***************************************************************************)
(* Entries (lib/util.py make_sticker, pack.py upload_sticker)               *)
(***************************************************************************)
make_sticker_default_mimetype == <<"image", "png">>

make_sticker(mxc, width, height, size, body, mimetype) ==
    [id |-> <<"scalar", mxc>>,
     body |-> body,
     url |-> mxc,
     info |-> [w |-> width, h |-> height, size |-> size, mimetype |-> mimetype,
               thumbnail_url |-> mxc,
               thumbnail_info |-> [w |-> width, h |-> height, size |-> size,
                                   mimetype |-> mimetype]],
     msgtype |-> "m.sticker"]

\* mutant of reuse_sticker: the previous entry is reused with its old name
reuse_sticker_keep_body(old, name) == old

\* {**old_stickers[sticker_id], "body": name}
reuse_sticker(old, name) == [old EXCEPT !.body = name]

Locators == {"mxc://s/1", "mxc://s/2"}
UploadError == "UploadError"

\* One call upload_sticker(file, directory, old_stickers); `outcome` is what
\* matrix.upload does if it is reached: a locator, or UploadError.
\* returned: <<>> for None, <<sticker>> otherwise; uploaded: the upload
\* calls made; raised: the exception that left the call.
upload_sticker(file, directory, old, outcome) ==
    LET content == directory[file]
        mime == detect_mime(content)
        skip == [raised |-> "", returned |-> <<>>, uploaded |-> <<>>]
        name == sticker_name(file)
        sticker_id == sticker_id_of(content)
        image_format == from_mime_type(mime)
        generic_image == from_bytes(content, image_format)
        call == [data |-> generic_image.data,
                 mime |-> to_mime_type(image_format),
                 filename |-> <<file, to_extension(image_format)>>]
    IN  IF startswith_dot(file) THEN skip
        ELSE IF content = Subdir THEN skip
        ELSE IF mime = None \/ mime[1] # "image" THEN skip
        ELSE IF content = Unreadable THEN skip
        ELSE IF sticker_id \in DOMAIN old
        THEN [raised |-> "",
              returned |-> <<reuse_sticker(old[sticker_id], name)>>,
              uploaded |-> <<>>]
        ELSE IF generic_image.raised # ""
        THEN [raised |-> generic_image.raised, returned |-> <<>>,
              uploaded |-> <<>>]
        ELSE IF outcome = UploadError
        THEN [raised |-> UploadError, returned |-> <<>>, uploaded |-> <<call>>]
        ELSE [raised |-> "",
              returned |-> <<[make_sticker(outcome, generic_image.width,
                                           generic_image.height,
                                           data_len(generic_image.data), name,
                                           make_sticker_default_mimetype)
                              EXCEPT !.id = sticker_id]>>,
              uploaded |-> <<call>>]

(***************************************************************************)
(* Cross-pack index (lib/util.py)                                           *)
(***************************************************************************)
MissingIndex == [kind |-> "missing", homeserver_url |-> None, packs |-> <<>>]
CorruptIndex == [kind |-> "corrupt", homeserver_url |-> None, packs |-> <<>>]
EmptyIndex == [kind |-> "ok", homeserver_url |-> None, packs |-> <<>>]

Range(seq) == {seq[i] : i \in 1..Len(seq)}

load_index_data(file) ==
    IF file.kind = "ok"
    THEN [homeserver_url |-> file.homeserver_url, packs |-> file.packs]
    ELSE [homeserver_url |-> None, packs |-> <<>>]

\* mutant of add_name_to_packs: the name is appended without the
\* membership test
add_name_to_packs_always(index_data, name, file) ==
    [file |-> [kind |-> "ok", homeserver_url |-> index_data.homeserver_url,
               packs |-> Append(index_data.packs, name)],
     wrote |-> TRUE]

\* the index file after the call, and whether the call wrote it
add_name_to_packs(index_data, name, file) ==
    IF name \notin Range(index_data.packs)
    THEN [file |-> [kind |-> "ok",
                    homeserver_url |-> index_data.homeserver_url,
                    packs |-> Append(index_data.packs, name)],
          wrote |-> TRUE]
    ELSE [file |-> file, wrote |-> FALSE]

add_to_index(name, file, url) ==
    LET loaded == load_index_data(file)
        index_data == IF loaded.homeserver_url = None /\ url # None
                      THEN [loaded EXCEPT !.homeserver_url = url]
                      ELSE loaded
    IN  add_name_to_packs(index_data, name, file)

(***************************************************************************)
(* main (pack.py)                                                           *)
(***************************************************************************)
MissingManifest ==
    [kind |-> "missing", title |-> None, id |-> None, stickers |-> <<>>]
CorruptManifest ==
    [kind |-> "corrupt", title |-> None, id |-> None, stickers |-> <<>>]

\* os.path.basename(os.path.abspath(args.path))
dirname == <<"d", " ", "p", "!">>

HomeserverUrl == <<"h", "s">>

\* command lines and configs a run is started with
Invocations ==
    {[title |-> None, id |-> None, add_to_index |-> FALSE, homeserver |-> None],
     [title |-> <<"T">>, id |-> <<"I">>, add_to_index |-> TRUE,
      homeserver |-> HomeserverUrl]}

\* {sticker["id"]: sticker for sticker in pack["stickers"]}
by_id(stickers) ==
    [i \in {stickers[k].id : k \in 1..Len(stickers)} |->
        stickers[Max({k \in 1..Len(stickers) : stickers[k].id = i})]]

\* mutant of load_pack: title and id are computed again from the command
\* line and the directory name although a manifest exists
load_pack_fresh(file, a) ==
    IF file.kind = "corrupt"
    THEN [raised |-> "JSONDecodeError",
          pack |-> [title |-> None, id |-> None, stickers |-> <<>>],
          old_stickers |-> <<>>]
    ELSE [raised |-> "",
          pack |-> [title |-> Or(a.title, dirname),
                    id |-> Or(a.id, convert_name(dirname)),
                    stickers |-> <<>>],
          old_stickers |-> IF file.kind = "ok" THEN by_id(file.stickers)
                           ELSE <<>>]

\* the try/except/else that loads pack.json
load_pack(file, a) ==
    IF file.kind = "corrupt"
    THEN [raised |-> "JSONDecodeError",
          pack |-> [title |-> None, id |-> None, stickers |-> <<>>],
          old_stickers |-> <<>>]
    ELSE IF file.kind = "missing"
    THEN [raised |-> "",
          pack |-> [title |-> Or(a.title, dirname),
                    id |-> Or(a.id, convert_name(dirname)),
                    stickers |-> <<>>],
          old_stickers |-> <<>>]
    ELSE [raised |-> "",
          pack |-> [title |-> file.title, id |-> file.id, stickers |-> <<>>],
          old_stickers |-> by_id(file.stickers)]

listdir(d) == {n \in DOMAIN d : d[n] # Absent}

Finished == {"idle", "done", "aborted"}

\* main up to the for loop
StartRun ==
    \E a \in Invocations :
        LET loaded == load_pack(manifest, a)
        IN  /\ pc \in Finished
            /\ runs < MaxRuns
            /\ runs' = runs + 1
            /\ args' = a
            /\ homeserver_url' = a.homeserver
            /\ prevRun' = [ok |-> pc = "done", dir |-> runDir]
            /\ runDir' = dir
            /\ startManifest' = manifest
            /\ log' = <<>>
            /\ pack' = loaded.pack
            /\ old_stickers' = loaded.old_stickers
            /\ cause' = loaded.raised
            /\ pc' = IF loaded.raised # "" THEN "aborted" ELSE "loop"
            /\ todo' = IF loaded.raised # "" THEN <<>> ELSE sorted(listdir(dir))
            /\ UNCHANGED <<dir, manifest, index, copies, established, edits>>
            /\ UNCHANGED <<indexVars, tgs>>

\* mutant of loop_finished: the manifest is written from inside the loop
loop_finished_always == TRUE

\* the for loop has run out of files
loop_finished == todo = <<>>

\* one iteration of the for loop
ProcessFile ==
    /\ pc = "loop"
    /\ todo # <<>>
    /\ \E outcome \in Locators \cup {UploadError} :
        LET file == Head(todo)
            r == upload_sticker(file, dir, old_stickers, outcome)
        IN  /\ log' = Append(log, [file |-> file, returned |-> r.returned,
                                   uploaded |-> r.uploaded, raised |-> r.raised])
            /\ IF r.raised # ""
               THEN /\ pc' = "aborted"
                    /\ cause' = r.raised
                    /\ UNCHANGED <<pack, todo>>
               ELSE /\ pack' = [pack EXCEPT !.stickers = @ \o r.returned]
                    /\ todo' = Tail(todo)
                    /\ UNCHANGED <<pc, cause>>
    /\ UNCHANGED <<dir, manifest, index, copies, homeserver_url, args,
                   old_stickers, startManifest, runDir, prevRun, established,
                   runs, edits>>
    /\ UNCHANGED <<indexVars, tgs>>

\* json.dump(pack, pack_file) into pack.json
WriteManifest ==
    /\ pc = "loop"
    /\ loop_finished
    /\ manifest' = [kind |-> "ok", title |-> pack.title, id |-> pack.id,
                    stickers |-> pack.stickers]
    /\ established' = IF established = <<>>
                      THEN <<[title |-> pack.title, id |-> pack.id]>>
                      ELSE established
    /\ pc' = IF args.add_to_index THEN "index" ELSE "done"
    /\ UNCHANGED <<dir, index, copies, homeserver_url, cause, args, pack,
                   old_stickers, todo, log, startManifest, runDir, prevRun,
                   runs, edits>>
    /\ UNCHANGED <<indexVars, tgs>>

picker_file_name(p) == p.id \o <<".", "j", "s", "o", "n">>

\* the `if args.add_to_index:` block
CopyToPicker ==
    /\ pc = "index"
    /\ LET name == picker_file_name(pack)
           r == add_to_index(name, index, homeserver_url)
       IN  /\ copies' = (name :> pack) @@ copies
           /\ index' = r.file
           /\ calls' = Append(calls, name)
           /\ lastCall' = [name |-> name, wrote |-> r.wrote, before |-> index]
    /\ pc' = "done"
    /\ UNCHANGED <<dir, manifest, homeserver_url, cause, args, pack,
                   old_stickers, todo, log, startManifest, runDir, prevRun,
                   established, runs, edits, tgs>>

(***************************************************************************)
(* The user changes the directory between runs                              *)
(***************************************************************************)
EditVars == <<manifest, index, copies, homeserver_url, pc, cause, args, pack,
              old_stickers, todo, log, startManifest, runDir, prevRun,
              established, runs, indexVars, tgs>>

PutFile ==
    /\ pc \in {"done", "aborted"}
    /\ edits < MaxEdits
    /\ runs < MaxRuns
    /\ \E n \in Names : \E c \in Storable(n) \ {Absent} :
        /\ dir[n] # c
        /\ dir' = [dir EXCEPT ![n] = c]
    /\ edits' = edits + 1
    /\ UNCHANGED EditVars

RemoveFile ==
    /\ pc \in {"done", "aborted"}
    /\ edits < MaxEdits
    /\ runs < MaxRuns
    /\ \E n \in listdir(dir) : dir' = [dir EXCEPT ![n] = Absent]
    /\ edits' = edits + 1
    /\ UNCHANGED EditVars

RenameFile ==
    /\ pc \in {"done", "aborted"}
    /\ edits < MaxEdits
    /\ runs < MaxRuns
    /\ \E n \in listdir(dir), m \in Names \ listdir(dir) :
        /\ dir[n] \in Storable(m)
        /\ dir' = [dir EXCEPT ![n] = Absent, ![m] = dir[n]]
    /\ edits' = edits + 1
    /\ UNCHANGED EditVars

(***************************************************************************)
(* Specification of the synchronizer                                        *)
(***************************************************************************)
NoCall == [name |-> None, wrote |-> FALSE, before |-> MissingIndex]
NoTgs == [frame_count |-> 0, framerate |-> 1, called |-> FALSE,
          result |-> convert_tgs_to_webp([frame_count |-> 0, framerate |-> 1])]

InitRun ==
    /\ copies = <<>>
    /\ homeserver_url = None
    /\ pc = "idle"
    /\ cause = ""
    /\ args = [title |-> None, id |-> None, add_to_index |-> FALSE,
               homeserver |-> None]
    /\ pack = [title |-> None, id |-> None, stickers |-> <<>>]
    /\ old_stickers = <<>>
    /\ todo = <<>>
    /\ log = <<>>
    /\ startManifest = manifest
    /\ runDir = dir
    /\ prevRun = [ok |-> FALSE, dir |-> dir]
    /\ established = <<>>
    /\ runs = 0
    /\ edits = 0
    /\ calls = <<>>
    /\ lastCall = NoCall
    /\ tgs = NoTgs

Init ==
    /\ dir \in {d \in [Names -> Bytes \cup {Absent, Subdir, Unreadable}] :
                  \A n \in Names : d[n] \in Storable(n)}
    /\ manifest \in {MissingManifest, CorruptManifest}
    /\ index = MissingIndex
    /\ InitRun

Next ==
    \/ StartRun
    \/ ProcessFile
    \/ WriteManifest
    \/ CopyToPicker
    \/ PutFile
    \/ RemoveFile
    \/ RenameFile

Spec == Init /\ [][Next]_vars

(***************************************************************************)
(* Specification of the index writer alone: add_to_index called with any    *)
(* pack file names on a missing, unparseable or empty index file            *)
(***************************************************************************)
PackFiles == {picker_file_name([id |-> <<"I">>]),
              picker_file_name([id |-> convert_name(dirname)]),
              picker_file_name([id |-> <<"a">>])}

AddToIndex ==
    /\ Len(calls) < MaxCalls
    /\ \E name \in PackFiles, url \in {None, HomeserverUrl} :
        LET r == add_to_index(name, index, url)
        IN  /\ homeserver_url' = url
            /\ index' = r.file
            /\ calls' = Append(calls, name)
            /\ lastCall' = [name |-> name, wrote |-> r.wrote, before |-> index]
    /\ UNCHANGED <<dir, manifest, copies, pc, cause, args, pack, old_stickers,
                   todo, log, startManifest, runDir, prevRun, established,
                   runs, edits, tgs>>

InitIndex ==
    /\ dir = [n \in Names |-> Absent]
    /\ manifest = MissingManifest
    /\ index \in {MissingIndex, CorruptIndex, EmptyIndex}
    /\ InitRun

NextIndex == AddToIndex

SpecIndex == InitIndex /\ [][NextIndex]_vars

(***************************************************************************)
(* Specification of the animation transcoder alone                          *)
(***************************************************************************)
Transcode ==
    /\ \E f \in 0..MaxFrames, r \in 1..MaxRate :
        tgs' = [frame_count |-> f, framerate |-> r, called |-> TRUE,
                result |-> convert_tgs_to_webp([frame_count |-> f,
                                                framerate |-> r])]
    /\ UNCHANGED <<runVars, indexVars>>

InitTgs ==
    /\ dir = [n \in Names |-> Absent]
    /\ manifest = MissingManifest
    /\ index = MissingIndex
    /\ InitRun

NextTgs == Transcode

SpecTgs == InitTgs /\ [][NextTgs]_vars

(***************************************************************************)
(* Properties                                                               *)
(***************************************************************************)
\* a file upload_sticker gets past its filters with: visible, regular,
\* detected as image/*, readable
Eligible(file, d) ==
    /\ ~startswith_dot(file)
    /\ d[file] \in Bytes
    /\ detect_mime(d[file]) # None
    /\ detect_mime(d[file])[1] = "image"

Written == pc \in {"index", "done"}

Uploads == {i \in DOMAIN log : log[i].uploaded # <<>>}

\* C1: an eligible file whose fingerprint is a key of the previous entries
\* gets the previous entry back with only body replaced by the display name
\* of its current file name, and no upload call is made for it.
C1_DedupReusesEntry ==
    \A i \in DOMAIN log :
        LET file == log[i].file
            h == <<"sha256", runDir[file]>>
        IN  (Eligible(file, runDir) /\ h \in DOMAIN old_stickers) =>
                /\ log[i].raised = ""
                /\ log[i].uploaded = <<>>
                /\ Len(log[i].returned) = 1
                /\ log[i].returned[1].id = old_stickers[h].id
                /\ log[i].returned[1].url = old_stickers[h].url
                /\ log[i].returned[1].info = old_stickers[h].info
                /\ log[i].returned[1].msgtype = old_stickers[h].msgtype
                /\ log[i].returned[1].body = sticker_name(file)
                /\ log[i].returned[1] \in Range(pack.stickers)

\* C1 witness: a file was resolved from the previous manifest under a name
\* that gives it another display name than the previous entry had.
C1_Witness ==
    \E i \in DOMAIN log :
        LET h == <<"sha256", runDir[log[i].file]>>
        IN  /\ Eligible(log[i].file, runDir)
            /\ h \in DOMAIN old_stickers
            /\ log[i].returned # <<>>
            /\ log[i].returned[1].body # old_stickers[h].body

\* C2: in a run that wrote the manifest, every fingerprint that is absent
\* from the previous manifest and belongs to an eligible file was uploaded
\* exactly once.
C2_OneUploadPerFingerprint ==
    Written =>
        \A b \in Bytes :
            ((\E n \in Names : Eligible(n, runDir) /\ runDir[n] = b)
                /\ <<"sha256", b>> \notin DOMAIN old_stickers) =>
            Cardinality({i \in Uploads : runDir[log[i].file] = b}) = 1

\* C3: a run that follows a completed run on an unchanged directory makes no
\* upload call and writes the manifest the first run wrote.
C3_RerunIsIdentical ==
    (Written /\ prevRun.ok /\ prevRun.dir = runDir) =>
        /\ Uploads = {}
        /\ manifest = startManifest

\* C4: a newly uploaded entry carries the MIME type of the canonical image
\* built from the file, in info and in thumbnail_info.
C4_MimetypeOfCanonicalImage ==
    \A i \in Uploads :
        log[i].returned # <<>> =>
            LET content == runDir[log[i].file]
                image == from_bytes(content,
                                    from_mime_type(detect_mime(content)))
            IN  /\ log[i].returned[1].info.mimetype =
                       to_mime_type(image.format)
                /\ log[i].returned[1].info.thumbnail_info.mimetype =
                       to_mime_type(image.format)

\* C5: a decode failure skips the file and never ends the run.
C5_DecodeFailureSkipsFile ==
    (\E i \in DOMAIN log : log[i].raised = "DecodeError") => pc # "aborted"

\* the ids a complete manifest of directory d holds, in order
RECURSIVE EligibleIds(_, _)
EligibleIds(files, d) ==
    IF files = <<>> THEN <<>>
    ELSE (IF Eligible(Head(files), d)
          THEN <<(<<"sha256", d[Head(files)]>>)>> ELSE <<>>)
         \o EligibleIds(Tail(files), d)

\* C6: pack.json is the file the run found until all entries are resolved,
\* and then the complete rebuilt manifest; it holds no entry for a file
\* whose upload failed.
C6_ManifestAllOrNothing ==
    /\ pc \in {"idle", "loop", "aborted"} => manifest = startManifest
    /\ Written =>
        /\ manifest.kind = "ok"
        /\ [k \in 1..Len(manifest.stickers) |-> manifest.stickers[k].id]
               = EligibleIds(sorted(listdir(runDir)), runDir)
    /\ \A i \in DOMAIN log :
        log[i].raised = UploadError =>
            \A k \in 1..Len(manifest.stickers) :
                manifest.stickers[k].id # <<"sha256", runDir[log[i].file]>>

\* C6 witness: an upload failed after an entry had been resolved.
C6_Witness ==
    /\ pc = "aborted"
    /\ cause = UploadError
    /\ Len(pack.stickers) >= 1

\* C7: a run that finds malformed JSON in pack.json does not fail on it.
C7_CorruptManifestIsRecovered == cause # "JSONDecodeError"

RECURSIVE FirstSeen(_)
FirstSeen(seq) ==
    IF seq = <<>> THEN <<>>
    ELSE LET front == FirstSeen(SubSeq(seq, 1, Len(seq) - 1))
         IN  IF seq[Len(seq)] \in Range(front) THEN front
             ELSE Append(front, seq[Len(seq)])

\* C8: after any calls of add_to_index on a missing, unparseable or empty
\* index, packs holds the names passed, once each, in first-seen order; a
\* call with a name already there writes nothing.
C8_IndexHoldsEachNameOnce ==
    /\ calls # <<>> => (index.kind = "ok" /\ index.packs = FirstSeen(calls))
    /\ (lastCall.name # None
            /\ lastCall.name \in Range(lastCall.before.packs)) =>
        (~lastCall.wrote /\ index = lastCall.before)

\* C8 witness: a name was passed again after another name had been added.
C8_Witness ==
    /\ Len(calls) >= 3
    /\ Len(index.packs) >= 2
    /\ ~lastCall.wrote
    /\ lastCall.name = calls[1]

\* C9: once a manifest has been written, every manifest on disk has the
\* title and id of the first one.
C9_PackIdentityPersists ==
    (established # <<>> /\ manifest.kind = "ok") =>
        /\ manifest.title = established[1].title
        /\ manifest.id = established[1].id

\* C9 witness: a later run without overrides wrote the manifest after the
\* files had changed.
C9_Witness ==
    /\ pc = "done"
    /\ startManifest.kind = "ok"
    /\ args.title = None
    /\ args.id = None
    /\ prevRun.dir # runDir
    /\ manifest.stickers # startManifest.stickers

\* round(n / d) as Python rounds: to the nearest, ties to even
PyRound(n, d) ==
    LET q == n \div d
        r == n % d
    IN  IF 2 * r < d THEN q
        ELSE IF 2 * r > d THEN q + 1
        ELSE IF q % 2 = 0 THEN q ELSE q + 1

\* C10: for more than one frame the asset is animated, frames 0..F-1 in
\* order, each shown round(1000 / R) ms, looping for ever; for one frame it
\* is static without duration or loop.
C10_FrameDurationRounded ==
    tgs.called =>
        /\ tgs.frame_count > 1 =>
            /\ tgs.result.save_all
            /\ tgs.result.frames = [i \in 1..tgs.frame_count |-> i - 1]
            /\ <<"duration", PyRound(1000, tgs.framerate)>>
                   \in tgs.result.options
            /\ <<"loop", 0>> \in tgs.result.options
        /\ tgs.frame_count = 1 =>
            /\ ~tgs.result.save_all
            /\ tgs.result.frames = <<0>>
            /\ \A o \in tgs.result.options : o[1] \notin {"duration", "loop"}

====
